---------------------------- MODULE Spec2Model ----------------------------
(***************************************************************************)
(* A model of the Citus membership manager (src/src/main.rs).              *)
(*                                                                         *)
(* The process (main -> docker_checker) is one sequential async task whose *)
(* position is pc.  It is raced by tokio::select! against ctrl_c, so the   *)
(* shutdown signal can only take effect where docker_checker is suspended  *)
(* at an .await (AwaitPoints).  The coordinator database is a second       *)
(* process: it executes the statements of the one request in flight and    *)
(* answers it.  The container runtime is the environment: it answers the   *)
(* inspection and delivers the items of the event stream.                  *)
(*                                                                         *)
(* An Option<T> of the source is a set with at most one element: {} is     *)
(* None and {v} is Some(v).                                                *)
(***************************************************************************)
EXTENDS Integers, Sequences, FiniteSets

\* ------------------------------------------------------------ bounds ----
MaxEvents == 2      \* items the event stream delivers in one run
MaxFailures == 2    \* failed connection attempts in one run
MaxShards == 1      \* shards whose placements the cluster may create

\* --------------------------------------------------------- constants ----
NodePort == 5432        \* the port of every node operation
BackoffSecs == 1        \* sleep(Duration::from_secs(1))
ExitFailure == 1        \* std::process::exit(1)
ExitSuccess == 0        \* main returns

Healthy == "health_status: healthy"
Destroy == "destroy"
ProjectLabel == "com.docker.compose.project"

Workers == {"worker-1", "worker-2"}
Projects == {"citus"}

VARIABLES
    pc,                 \* where main / docker_checker stands
    marker,             \* HEALTHCHECK_FILE exists
    hostname,           \* Option: the HOSTNAME variable of the environment
    exit,               \* Option: the process's exit status
    cause,              \* why docker_checker ended: [kind, at]
    ret,                \* Option: what docker_checker returned, "ok" or "err"
    result,             \* Option: the result of the match on the action, "ok" or "err"
    attempts,           \* connection attempts made in connect_to_master's call
    failures,           \* of which failed
    slept,              \* seconds slept in connect_to_master's call
    client,             \* connect_to_master has returned a Client
    connAlive,          \* the spawned connection task still drives the I/O
    container,          \* Option: what inspect_container returned
    project,            \* Option: the Compose project label
    events,             \* Option: the filters of the open event subscription
    delivered,          \* the items events.next() has yielded so far
    cur,                \* Option: the event being handled
    dbcalls,            \* the add_worker / remove_worker calls made so far
    errlog,             \* the "Error ..." lines written to stderr
    reply,              \* Option: the database's answer to the request in flight
    srv,                \* the database session: statements left, working copy
    pg_dist_node,       \* committed node registry
    pg_dist_placement,  \* committed placements
    nextGroup,          \* the group id the next new node gets
    before              \* Option: the call of the event being handled, and
                        \* the committed database when it was made

procVars == <<pc, marker, hostname, exit, cause, ret, result, container, project, events, delivered, cur,
              dbcalls, errlog>>
connVars == <<attempts, failures, slept, client, connAlive>>
dbVars == <<reply, srv, pg_dist_node, pg_dist_placement, nextGroup, before>>
vars == <<procVars, connVars, dbVars>>

\* ---------------------------------------------------------- options -----
None == {}
Some(v) == {v}
\* Option::unwrap_or_default for a String
UnwrapOrDefault(opt) == IF opt = {} THEN "" ELSE CHOOSE v \in opt : TRUE
\* HashMap::get on a map kept as a set of <<key, value>> pairs
Get(map, key) == {kv[2] : kv \in {p \in map : p[1] = key}}

\* ------------------------------------------------- container runtime ----
\* What inspect_container can return for the process's own container.
LabelMaps ==
    {{}, {<<"com.citusdata.role", "Manager">>}}
        \cup {{<<ProjectLabel, p>>, <<"com.citusdata.role", "Manager">>} : p \in Projects}
ConfigOpts ==
    {None} \cup {Some([labels |-> None])}
        \cup {Some([labels |-> Some(m)]) : m \in LabelMaps}
Containers == {[config |-> c] : c \in ConfigOpts}

\* A variant that falls back to the default project when the label is absent
compose_project_or_default(c) ==
    LET found == UNION {UNION {Get(labels, ProjectLabel) : labels \in config.labels}
                          : config \in c.config}
    IN  IF found = None THEN Some("") ELSE found

\* container.config.and_then(|config| Some(config.labels?.get(LABEL)?.clone()))
compose_project(c) ==
    UNION {UNION {Get(labels, ProjectLabel) : labels \in config.labels}
             : config \in c.config}

\* The filters handed to docker.events
Filters(p) ==
    [event |-> {Healthy, Destroy},
     label |-> {<<ProjectLabel, p>>, <<"com.citusdata.role", "Worker">>},
     type  |-> {"container"}]

\* The events the runtime can deliver: action and actor are both optional,
\* and so are the actor's attributes and the "name" among them.
ActionOpts == {None} \cup {Some(a) : a \in {Healthy, Destroy, "pause"}}
AttrMaps == {{<<"image", "citus">>}}
                \cup {{<<"image", "citus">>, <<"name", w>>} : w \in Workers}
ActorOpts ==
    {None} \cup {Some([attributes |-> None])}
        \cup {Some([attributes |-> Some(m)]) : m \in AttrMaps}
EventMessages == [action : ActionOpts, actor : ActorOpts]
\* An item of the stream: Ok(event) or Err(transport error)
OkItem(e) == [kind |-> "ok", event |-> Some(e)]
ErrItem == [kind |-> "err", event |-> None]

\* event.actor.and_then(|actor| Some(actor.attributes?.get("name")?.clone()))
NameOpt(event) ==
    UNION {UNION {Get(attrs, "name") : attrs \in actor.attributes}
             : actor \in event.actor}
worker_name(event) == UnwrapOrDefault(NameOpt(event))
action(event) == UnwrapOrDefault(event.action)

\* ------------------------------------------------------------- Init -----
NoCause == [kind |-> "none", at |-> "none"]
Idle == [stmts |-> <<>>, host |-> "", node |-> {}, placement |-> {}]

Init ==
    /\ pc = "main"
    /\ marker \in BOOLEAN          \* a stale marker of an earlier run, or none
    /\ hostname \in {None, Some("manager")}
    /\ exit = None
    /\ cause = NoCause
    /\ ret = None
    /\ result = None
    /\ attempts = 0 /\ failures = 0 /\ slept = 0
    /\ client = FALSE /\ connAlive = FALSE
    /\ container = None
    /\ project = None
    /\ events = None
    /\ delivered = <<>>
    /\ cur = None
    /\ dbcalls = <<>>
    /\ errlog = <<>>
    /\ reply = None /\ srv = Idle
    /\ pg_dist_node = {} /\ pg_dist_placement = {}
    /\ nextGroup = 1
    /\ before = None

\* ---------------------------------------------------------- startup ----
\* A variant of main that logs the error and returns
MainResultIgnoresError(r) == Some(ExitSuccess)

\* main, the first branch of select!: result = docker_checker() =>
\* if let Err(e) = result { std::process::exit(1) }, else main returns
MainResult(r) == IF r = Some("err") THEN Some(ExitFailure) ELSE Some(ExitSuccess)

\* docker_checker returns r; nothing is awaited between its return and the
\* end of the process.
Return(r, kind) ==
    /\ ret' = r
    /\ cause' = [kind |-> kind, at |-> pc]
    /\ exit' = MainResult(r)
    /\ pc' = "exited"

\* `?` on an Err inside docker_checker: it returns the error to main.
Fail(kind) == Return(Some("err"), kind)

\* main: remove a stale readiness marker
ClearMarker ==
    /\ pc = "main"
    /\ marker' = FALSE
    /\ pc' = "docker_connect"
    /\ UNCHANGED <<hostname, exit, cause, ret, result, container, project, events, delivered, cur,
                   dbcalls, errlog, connVars, dbVars>>

\* A variant that resolves the container metadata without connecting first
DockerConnectSkipsMaster ==
    /\ pc = "docker_connect"
    /\ pc' = "hostname"
    /\ UNCHANGED <<hostname, marker, exit, cause, ret, result, container, project,
                   events, delivered, cur, dbcalls, errlog, connVars, dbVars>>

\* Docker::connect_with_unix_defaults()?
DockerConnectOk ==
    /\ pc = "docker_connect"
    /\ pc' = "connect"
    /\ UNCHANGED <<hostname, marker, exit, cause, ret, result, container, project, events, delivered,
                   cur, dbcalls, errlog, connVars, dbVars>>

DockerConnectErr ==
    /\ pc = "docker_connect"
    /\ Fail("docker_connect")
    /\ UNCHANGED <<hostname, marker, result, container, project, events, delivered, cur,
                   dbcalls, errlog, connVars, dbVars>>

\* A variant that retries at once, without the backoff
ConnectErrNoBackoff ==
    /\ pc = "connect"
    /\ failures < MaxFailures
    /\ attempts' = attempts + 1
    /\ failures' = failures + 1
    /\ pc' = "connect"
    /\ UNCHANGED <<hostname, marker, exit, cause, ret, result, container, project, events,
                   delivered, cur, dbcalls, errlog, slept, client, connAlive,
                   dbVars>>

\* connect_to_master: an attempt fails; the error is logged and the loop sleeps
ConnectErr ==
    /\ pc = "connect"
    /\ failures < MaxFailures
    /\ attempts' = attempts + 1
    /\ failures' = failures + 1
    /\ pc' = "sleep"
    /\ UNCHANGED <<hostname, marker, exit, cause, ret, result, container, project, events, delivered,
                   cur, dbcalls, errlog, slept, client, connAlive, dbVars>>

\* connect_to_master: sleep(1 s) is over, the loop tries again
Backoff ==
    /\ pc = "sleep"
    /\ slept' = slept + BackoffSecs
    /\ pc' = "connect"
    /\ UNCHANGED <<hostname, marker, exit, cause, ret, result, container, project, events, delivered,
                   cur, dbcalls, errlog, attempts, failures, client, connAlive,
                   dbVars>>

\* connect_to_master: an attempt succeeds; the connection task is spawned and
\* the client returned
ConnectOk ==
    /\ pc = "connect"
    /\ attempts' = attempts + 1
    /\ client' = TRUE
    /\ connAlive' = TRUE
    /\ pc' = "hostname"
    /\ UNCHANGED <<hostname, marker, exit, cause, ret, result, container, project, events, delivered,
                   cur, dbcalls, errlog, failures, slept, dbVars>>

\* The counters of connect_to_master describe its one call: they are dropped
\* when docker_checker goes on with the client it returned.
DropCounters == attempts' = 0 /\ failures' = 0 /\ slept' = 0

\* env::var("HOSTNAME")?
HostnameOk ==
    /\ pc = "hostname"
    /\ hostname # None
    /\ pc' = "inspect"
    /\ DropCounters
    /\ UNCHANGED <<hostname, marker, exit, cause, ret, result, container, project, events,
                   delivered, cur, dbcalls, errlog, client, connAlive, dbVars>>

HostnameErr ==
    /\ pc = "hostname"
    /\ hostname = None
    /\ Fail("hostname")
    /\ DropCounters
    /\ UNCHANGED <<hostname, marker, result, container, project, events, delivered,
                   cur, dbcalls, errlog, client, connAlive, dbVars>>

\* docker.inspect_container(&my_hostname, None).await? fails
InspectErr ==
    /\ pc = "inspect"
    /\ Fail("inspect")
    /\ UNCHANGED <<hostname, marker, result, container, project, events, delivered, cur,
                   dbcalls, errlog, connVars, dbVars>>

\* The inspection answers; the Compose project label is looked up in it
\* (.ok_or_else(...)?) and the filters are built from it.
ResolveProject(c) ==
    IF compose_project(c) = None
        THEN Fail("label") /\ UNCHANGED project
        ELSE /\ project' = compose_project(c)
             /\ pc' = "raise"
             /\ UNCHANGED <<ret, cause, exit>>

InspectOk ==
    /\ pc = "inspect"
    /\ \E c \in Containers :
        /\ container' = Some(c)
        /\ ResolveProject(c)
    /\ UNCHANGED <<hostname, marker, result, events, delivered, cur, dbcalls,
                   errlog, connVars, dbVars>>

\* fs::create_dir_all(parent)? fails
CreateDirErr ==
    /\ pc = "raise"
    /\ Fail("create_dir_all")
    /\ UNCHANGED <<hostname, marker, result, container, project, events, delivered, cur,
                   dbcalls, errlog, connVars, dbVars>>

\* File::create(HEALTHCHECK_FILE)? fails
CreateFileErr ==
    /\ pc = "raise"
    /\ Fail("create")
    /\ UNCHANGED <<hostname, marker, result, container, project, events, delivered, cur,
                   dbcalls, errlog, connVars, dbVars>>

\* File::create(HEALTHCHECK_FILE)? succeeds: the readiness marker exists
RaiseReadiness ==
    /\ pc = "raise"
    /\ marker' = TRUE
    /\ pc' = "subscribe"
    /\ UNCHANGED <<hostname, exit, cause, ret, result, container, project, events, delivered, cur,
                   dbcalls, errlog, connVars, dbVars>>

\* let mut events = docker.events(Some(events_options))
OpenSubscription ==
    /\ pc = "subscribe"
    /\ events' = Some(Filters(UnwrapOrDefault(project)))
    /\ pc' = "await_next"
    /\ UNCHANGED <<hostname, marker, exit, cause, ret, result, container, project, delivered, cur,
                   dbcalls, errlog, connVars, dbVars>>

\* --------------------------------------------------------- database -----
\* The row of pg_dist_node for a host, if any (nodename and nodeport are its key).
NodeRows(node, host) == {n \in node : n.nodename = host /\ n.nodeport = NodePort}

\* SELECT master_add_node(host, 5432): registers the host in a group of its
\* own; registering a registered host changes nothing.
master_add_node(node, host, group) ==
    IF NodeRows(node, host) # {}
        THEN node
        ELSE node \cup {[nodename |-> host, nodeport |-> NodePort, groupid |-> group]}

\* A variant whose subquery, finding no node, matches every placement
delete_placements_any(node, placement, host) ==
    LET groups == {n.groupid : n \in NodeRows(node, host)}
    IN  IF groups = {}
            THEN {}
            ELSE {p \in placement : p.groupid # (CHOOSE g \in groups : TRUE)}

\* DELETE FROM pg_dist_placement WHERE groupid = (SELECT groupid FROM
\* pg_dist_node WHERE nodename = host AND nodeport = 5432 LIMIT 1)
delete_placements(node, placement, host) ==
    LET groups == {n.groupid : n \in NodeRows(node, host)}
    IN  IF groups = {}
            THEN placement      \* groupid = NULL matches no row
            ELSE {p \in placement : p.groupid # (CHOOSE g \in groups : TRUE)}

\* A variant of master_remove_node that leaves the node row in place
master_remove_node_keeps(node, host) == node

\* SELECT master_remove_node(host, 5432): the database refuses to remove a
\* node whose group still has placements.
RemoveAllowed(node, placement, host) ==
    \A n \in NodeRows(node, host) : \A p \in placement : p.groupid # n.groupid
master_remove_node(node, host) == node \ NodeRows(node, host)

\* A variant of the batch that leaves the node registered
BatchDeleteOnly == <<"delete_placements">>

\* The statements of the two requests the client makes.
AddStatements == <<"master_add_node">>
BatchStatements == <<"delete_placements", "master_remove_node">>

\* A variant that sends the two statements as separate requests
SeparateStatements == FALSE

\* batch_execute sends its statements in one simple-query message, which the
\* database runs as one implicit transaction: nothing is committed before the
\* last statement has succeeded.
ImplicitTransaction == TRUE

\* ------------------------------------------------------- event loop -----
ErrLine(msg) == [msg |-> msg, at |-> Len(delivered)]

\* events.next().await yields Some(Ok(event))
NextOk ==
    /\ pc = "await_next"
    /\ Len(delivered) < MaxEvents
    /\ \E e \in EventMessages :
        /\ delivered' = Append(delivered, OkItem(e))
        /\ cur' = Some(e)
    /\ pc' = "handle"
    /\ UNCHANGED <<hostname, marker, exit, cause, ret, result, container, project, events, dbcalls,
                   errlog, connVars, dbVars>>

\* A variant that propagates the transport error (`event_result?`)
NextErrFatal ==
    /\ pc = "await_next"
    /\ Len(delivered) < MaxEvents
    /\ delivered' = Append(delivered, ErrItem)
    /\ Fail("stream_error")
    /\ UNCHANGED <<hostname, marker, result, container, project, events, cur,
                   dbcalls, errlog, connVars, dbVars>>

\* events.next().await yields Some(Err(e)): the Err arm of the match
NextErr ==
    /\ pc = "await_next"
    /\ Len(delivered) < MaxEvents
    /\ delivered' = Append(delivered, ErrItem)
    /\ errlog' = Append(errlog, [msg |-> "Error receiving event",
                                 at |-> Len(delivered) + 1])
    /\ pc' = "await_next"
    /\ UNCHANGED <<hostname, marker, exit, cause, ret, result, container, project, events, cur,
                   dbcalls, connVars, dbVars>>

\* A variant that takes the end of the stream for an error
NextNoneIsError ==
    /\ pc = "await_next"
    /\ Return(Some("err"), "stream_end")
    /\ UNCHANGED <<hostname, marker, result, container, project, events, delivered,
                   cur, dbcalls, errlog, connVars, dbVars>>

\* events.next().await yields None: the while-let ends and Ok(()) is returned
NextNone ==
    /\ pc = "await_next"
    /\ Return(Some("ok"), "stream_end")
    /\ UNCHANGED <<hostname, marker, result, container, project, events, delivered, cur,
                   dbcalls, errlog, connVars, dbVars>>

\* A variant that spawns the request on a task of its own and does not await it
CallSpawned(fn, host, stmts) ==
    /\ dbcalls' = Append(dbcalls, [fn |-> fn, host |-> host])
    /\ before' = before
    /\ IF connAlive
        THEN /\ srv' = [stmts |-> stmts, host |-> host,
                        node |-> pg_dist_node, placement |-> pg_dist_placement]
             /\ reply' = None
        ELSE UNCHANGED <<srv, reply>>
    /\ result' = Some("ok")
    /\ pc' = "check_result"

\* client.execute / client.batch_execute: the request goes to the database,
\* or fails at once when the connection task has ended.
Call(fn, host, stmts) ==
    /\ dbcalls' = Append(dbcalls, [fn |-> fn, host |-> host])
    /\ before' = Some([fn |-> fn, host |-> host, node |-> pg_dist_node,
                        placement |-> pg_dist_placement])
    /\ IF connAlive
        THEN /\ srv' = [stmts |-> stmts, host |-> host,
                        node |-> pg_dist_node, placement |-> pg_dist_placement]
             /\ reply' = None
             /\ pc' = "db_wait"
             /\ UNCHANGED result
        ELSE /\ result' = Some("err")
             /\ pc' = "check_result"
             /\ UNCHANGED <<srv, reply>>

add_worker(host) == Call("add_worker", host, AddStatements)
remove_worker(host) == Call("remove_worker", host, BatchStatements)

\* A variant that skips an add_worker equal to the call made last
HandleHealthyDedup ==
    /\ pc = "handle"
    /\ \E e \in cur :
        /\ action(e) = Healthy
        /\ IF dbcalls # <<>>
              /\ dbcalls[Len(dbcalls)] = [fn |-> "add_worker", host |-> worker_name(e)]
            THEN /\ result' = Some("ok")
                 /\ pc' = "check_result"
                 /\ UNCHANGED <<dbcalls, before, srv, reply>>
            ELSE add_worker(worker_name(e))
    /\ UNCHANGED <<hostname, marker, exit, cause, ret, container, project, events,
                   delivered, cur, errlog, connVars, pg_dist_node,
                   pg_dist_placement, nextGroup>>

\* The arms of `match action.as_str()`
HandleHealthy ==
    /\ pc = "handle"
    /\ \E e \in cur : action(e) = Healthy /\ add_worker(worker_name(e))
    /\ UNCHANGED <<hostname, marker, exit, cause, ret, container, project, events, delivered, cur,
                   errlog, connVars, pg_dist_node, pg_dist_placement, nextGroup>>

HandleDestroy ==
    /\ pc = "handle"
    /\ \E e \in cur : action(e) = Destroy /\ remove_worker(worker_name(e))
    /\ UNCHANGED <<hostname, marker, exit, cause, ret, container, project, events, delivered, cur,
                   errlog, connVars, pg_dist_node, pg_dist_placement, nextGroup>>

\* A variant that rejects an action it does not know
HandleOtherFails ==
    /\ pc = "handle"
    /\ \E e \in cur : action(e) \notin {Healthy, Destroy}
    /\ result' = Some("err")
    /\ pc' = "check_result"
    /\ UNCHANGED <<hostname, marker, exit, cause, ret, container, project, events,
                   delivered, cur, dbcalls, errlog, connVars, dbVars>>

\* `_ => Ok(())`
HandleOther ==
    /\ pc = "handle"
    /\ \E e \in cur : action(e) \notin {Healthy, Destroy}
    /\ result' = Some("ok")
    /\ pc' = "check_result"
    /\ UNCHANGED <<hostname, marker, exit, cause, ret, container, project, events, delivered, cur,
                   dbcalls, errlog, connVars, dbVars>>

\* The database's answer reaches the client: `.await?` inside add_worker /
\* remove_worker
ClientReply ==
    /\ pc = "db_wait"
    /\ connAlive
    /\ reply # None
    /\ result' = reply
    /\ reply' = None
    /\ pc' = "check_result"
    /\ UNCHANGED <<hostname, marker, exit, cause, ret, container, project, events, delivered, cur,
                   dbcalls, errlog, connVars, srv, pg_dist_node,
                   pg_dist_placement, nextGroup, before>>

\* The connection ended while the client waited: the request fails
ClientClosed ==
    /\ pc = "db_wait"
    /\ ~connAlive
    /\ result' = Some("err")
    /\ pc' = "check_result"
    /\ UNCHANGED <<hostname, marker, exit, cause, ret, container, project, events, delivered, cur,
                   dbcalls, errlog, connVars, dbVars>>

\* A variant that propagates the error of the database call (`result?`)
CheckResultPropagates ==
    /\ pc = "check_result"
    /\ IF result = Some("err")
        THEN Fail("event") /\ UNCHANGED <<errlog, result, cur, before>>
        ELSE /\ pc' = "await_next"
             /\ result' = None
             /\ cur' = None
             /\ before' = None
             /\ UNCHANGED <<errlog, ret, cause, exit>>
    /\ UNCHANGED <<hostname, marker, container, project, events, delivered,
                   dbcalls, connVars, reply, srv, pg_dist_node,
                   pg_dist_placement, nextGroup>>

\* A variant that connects anew after a failed database call
CheckResultReconnects ==
    /\ pc = "check_result"
    /\ errlog' = IF result = Some("err")
                    THEN Append(errlog, ErrLine("Error processing event"))
                    ELSE errlog
    /\ result' = None
    /\ cur' = None
    /\ before' = None
    /\ pc' = IF result = Some("err") THEN "connect" ELSE "await_next"
    /\ UNCHANGED <<hostname, marker, exit, cause, ret, container, project, events,
                   delivered, dbcalls, connVars, reply, srv, pg_dist_node,
                   pg_dist_placement, nextGroup>>

\* if let Err(e) = result { eprintln!("Error processing event: {}", e) }
CheckResult ==
    /\ pc = "check_result"
    /\ errlog' = IF result = Some("err")
                    THEN Append(errlog, ErrLine("Error processing event"))
                    ELSE errlog
    /\ result' = None
    /\ cur' = None
    /\ before' = None
    /\ pc' = "await_next"
    /\ UNCHANGED <<hostname, marker, exit, cause, ret, container, project, events,
                   delivered, dbcalls, connVars, reply, srv, pg_dist_node,
                   pg_dist_placement, nextGroup>>

\* --------------------------------------------------------------- main ---
\* The .await points of docker_checker: where select! can take the other branch
AwaitPoints == {"connect", "sleep", "inspect", "await_next", "db_wait"}

\* A variant that takes the readiness marker down on shutdown
ShutdownClearsMarker ==
    /\ pc \in AwaitPoints
    /\ marker' = FALSE
    /\ exit' = Some(ExitSuccess)
    /\ cause' = [kind |-> "signal", at |-> pc]
    /\ pc' = "exited"
    /\ UNCHANGED <<hostname, ret, result, container, project, events, delivered, cur,
                   dbcalls, errlog, connVars, dbVars>>

\* _ = tokio::signal::ctrl_c() => eprintln!("shutting down...")
Shutdown ==
    /\ pc \in AwaitPoints
    /\ exit' = Some(ExitSuccess)
    /\ cause' = [kind |-> "signal", at |-> pc]
    /\ pc' = "exited"
    /\ UNCHANGED <<hostname, marker, ret, result, container, project, events, delivered, cur,
                   dbcalls, errlog, connVars, dbVars>>

\* ------------------------------------------- the database at work -------
\* The effect of one statement on the session's working copy
Effect(stmt, s) ==
    CASE stmt = "master_add_node" ->
            [s EXCEPT !.node = master_add_node(s.node, s.host, nextGroup)]
      [] stmt = "delete_placements" ->
            [s EXCEPT !.placement = delete_placements(s.node, s.placement, s.host)]
      [] stmt = "master_remove_node" ->
            [s EXCEPT !.node = master_remove_node(s.node, s.host)]

\* Whether the database accepts the statement
Accepts(stmt, s) ==
    stmt = "master_remove_node" => RemoveAllowed(s.node, s.placement, s.host)

\* The next statement of the request succeeds.  Its effect is committed with
\* the last statement of the request (or at once, outside a transaction).
ExecOk ==
    /\ srv.stmts # <<>>
    /\ Accepts(Head(srv.stmts), srv)
    /\ LET after == [Effect(Head(srv.stmts), srv) EXCEPT !.stmts = Tail(srv.stmts)]
           commit == after.stmts = <<>> \/ ~ImplicitTransaction
       IN  /\ srv' = IF after.stmts = <<>> THEN Idle ELSE after
           /\ reply' = IF after.stmts = <<>> THEN Some("ok") ELSE reply
           /\ pg_dist_node' = IF commit THEN after.node ELSE pg_dist_node
           /\ pg_dist_placement' = IF commit THEN after.placement
                                             ELSE pg_dist_placement
           /\ nextGroup' = IF after.node \subseteq srv.node THEN nextGroup
                                                          ELSE nextGroup + 1
    /\ UNCHANGED <<procVars, connVars, before>>

\* The next statement fails (refused, or the server or the link fails): the
\* rest is not executed and what the transaction did is rolled back.
ExecErr ==
    /\ srv.stmts # <<>>
    /\ srv' = Idle
    /\ reply' = Some("err")
    /\ UNCHANGED <<procVars, connVars, pg_dist_node, pg_dist_placement,
                   nextGroup, before>>

\* The spawned connection task ends (connection.await returns)
ConnectionLost ==
    /\ client /\ connAlive
    /\ pc # "exited"
    /\ connAlive' = FALSE
    /\ UNCHANGED <<procVars, attempts, failures, slept, client, dbVars>>

\* The cluster places a shard on a registered node's group
PlaceShard ==
    /\ pc # "exited"
    /\ \E n \in pg_dist_node, s \in 1..MaxShards :
        LET p == [shardid |-> s, groupid |-> n.groupid]
        IN  /\ p \notin pg_dist_placement
            /\ pg_dist_placement' = pg_dist_placement \cup {p}
            /\ srv' = IF srv.stmts = <<>> THEN srv
                      ELSE [srv EXCEPT !.placement = @ \cup {p}]
    /\ UNCHANGED <<procVars, connVars, reply, pg_dist_node, nextGroup, before>>

Next ==
    \/ ClearMarker
    \/ DockerConnectOk \/ DockerConnectErr
    \/ ConnectErr \/ Backoff \/ ConnectOk
    \/ HostnameOk \/ HostnameErr
    \/ InspectErr \/ InspectOk
    \/ CreateDirErr \/ CreateFileErr \/ RaiseReadiness
    \/ OpenSubscription
    \/ NextOk \/ NextErr \/ NextNone
    \/ HandleHealthy \/ HandleDestroy \/ HandleOther
    \/ ClientReply \/ ClientClosed \/ CheckResult
    \/ Shutdown
    \/ ExecOk \/ ExecErr \/ ConnectionLost \/ PlaceShard

Spec == Init /\ [][Next]_vars

\* The steps the runtime takes as soon as the task can run: they wait for
\* nothing outside the process but an answer that has already arrived.
ProcessStep ==
    \/ ClearMarker
    \/ DockerConnectOk \/ DockerConnectErr
    \/ HostnameOk \/ HostnameErr
    \/ CreateDirErr \/ CreateFileErr \/ RaiseReadiness
    \/ OpenSubscription
    \/ HandleHealthy \/ HandleDestroy \/ HandleOther
    \/ ClientReply \/ ClientClosed \/ CheckResult

\* #[tokio::main]: the runtime keeps polling main's future, so the process's
\* own steps are taken, the timer of the backoff fires and a connection
\* attempt at an unreachable database fails.  Nothing makes an attempt
\* succeed, an event arrive or a signal come.  Failed attempts are counted
\* up to MaxFailures only: a behaviour that stays at the attempt after the
\* last counted failure stands for the loop of lines 29-48 going on.
LiveSpec ==
    /\ Spec
    /\ WF_vars(ProcessStep)
    /\ WF_vars(Backoff)
    /\ WF_vars(ConnectErr)

\* ================================================================ claims ==
Last(seq) == seq[Len(seq)]
RECURSIVE SelectItems(_, _)
SelectItems(seq, kind) ==
    IF seq = <<>> THEN <<>>
    ELSE LET rest == SelectItems(Tail(seq), kind)
         IN  IF Head(seq).kind = kind THEN <<Head(seq)>> \o rest ELSE rest

\* The items whose handling has passed the match on the action: all that were
\* delivered, but the one still waiting at the match.
HandledItems ==
    IF pc = "handle" THEN SubSeq(delivered, 1, Len(delivered) - 1) ELSE delivered

EventOf(item) == CHOOSE e \in item.event : TRUE
HasName(e) ==
    \E actor \in e.actor : \E attrs \in actor.attributes :
        \E kv \in attrs : kv[1] = "name"
NameOf(e) ==
    CHOOSE n \in Workers \cup {""} :
        \E actor \in e.actor : \E attrs \in actor.attributes : <<"name", n>> \in attrs
IsMembershipEvent(e) == e.action \in {Some(Healthy), Some(Destroy)}

\* The call a named healthy / destroy event asks for
CallFor(e) ==
    [fn |-> IF e.action = Some(Healthy) THEN "add_worker" ELSE "remove_worker",
     host |-> NameOf(e)]
RECURSIVE CallsFor(_)
CallsFor(items) ==
    IF items = <<>> THEN <<>>
    ELSE <<CallFor(EventOf(Head(items)))>> \o CallsFor(Tail(items))

OnlyNamedMembershipEvents ==
    \A i \in 1..Len(delivered) :
        delivered[i].kind = "ok" =>
            /\ IsMembershipEvent(EventOf(delivered[i]))
            /\ HasName(EventOf(delivered[i]))

\* C1: when every delivered event is a healthy or destroy event with a worker
\* name, the database calls made are exactly one add_worker per healthy event
\* and one remove_worker per destroy event, for that event's worker, in the
\* order of delivery.
C1_OneCallPerEventInOrder ==
    OnlyNamedMembershipEvents =>
        dbcalls = CallsFor(SelectItems(HandledItems, "ok"))

C1_Witness ==
    /\ pc = "await_next"
    /\ OnlyNamedMembershipEvents
    /\ dbcalls = <<[fn |-> "add_worker", host |-> "worker-1"],
                   [fn |-> "remove_worker", host |-> "worker-1"]>>

C3_NoCallWithoutActionOrName ==
    Len(dbcalls) <= Cardinality({i \in 1..Len(delivered) :
                                    /\ delivered[i].kind = "ok"
                                    /\ EventOf(delivered[i]).action # None
                                    /\ HasName(EventOf(delivered[i]))})

\* C4: an error returned by add_worker or remove_worker is only logged: the
\* step that looks at the result writes "Error processing event" and goes
\* back to awaiting the next event, with nothing returned to main; and
\* whatever failed before, no handled healthy / destroy event is without its
\* database call.
C4_EventErrorIsLogged ==
    /\ [][(pc = "check_result" /\ result = Some("err") /\ pc' # pc)
            => /\ pc' = "await_next"
               /\ ret' = None /\ exit' = None
               /\ errlog' = Append(errlog, [msg |-> "Error processing event",
                                            at |-> Len(delivered)])]_vars
    /\ [](Len(dbcalls) = Cardinality({i \in 1..Len(HandledItems) :
                                        /\ HandledItems[i].kind = "ok"
                                        /\ IsMembershipEvent(EventOf(HandledItems[i]))}))

C4_Witness ==
    /\ Len(dbcalls) = 2
    /\ \E line \in {errlog[i] : i \in 1..Len(errlog)} :
        line = [msg |-> "Error processing event", at |-> 1]
    /\ pc = "db_wait"

\* C5: when remove_worker(W) has succeeded, W is not registered and no
\* placement is left in the group W's node had; and no committed state of the
\* database has a placement in a group without a registered node.
GroupsOf(node, host) == {n.groupid : n \in NodeRows(node, host)}
C5_RemovedWorkerLeavesNoPlacement ==
    /\ \A call \in before :
        (pc = "check_result" /\ result = Some("ok") /\ call.fn = "remove_worker")
            => /\ NodeRows(pg_dist_node, call.host) = {}
               /\ \A p \in pg_dist_placement :
                    p.groupid \notin GroupsOf(call.node, call.host)
    /\ \A p \in pg_dist_placement : \E n \in pg_dist_node : n.groupid = p.groupid

\* A removal has succeeded for a worker that was registered and had a placement.
C5_Witness ==
    /\ pc = "check_result" /\ result = Some("ok")
    /\ \E call \in before :
        /\ call.fn = "remove_worker"
        /\ call.host = "worker-1"
        /\ \E p \in call.placement : p.groupid \in GroupsOf(call.node, call.host)

\* C6: the removal is atomic.  No step of the committed database deletes a
\* placement of a group whose node stays registered; when the database has
\* answered a remove_worker with an error, the registry is as it was when the
\* call was made and no placement of then is missing; and the failure is
\* logged with the loop going on.
C6_RemovalIsAtomic ==
    /\ [][/\ \A p \in pg_dist_placement \ pg_dist_placement' :
                \A n \in pg_dist_node' : n.groupid # p.groupid
          /\ (/\ pc = "check_result" /\ result = Some("err") /\ pc' # pc
              /\ \E call \in before : call.fn = "remove_worker")
                => /\ pc' = "await_next"
                   /\ Len(errlog') = Len(errlog) + 1]_vars
    /\ [](\A call \in before :
            (call.fn = "remove_worker" /\ reply = Some("err"))
                => /\ pg_dist_node = call.node
                   /\ call.placement \subseteq pg_dist_placement)

\* The process has stopped between the two statements: the transaction has
\* deleted a placement of the node's group and has not committed.
C6_Witness ==
    /\ pc = "exited"
    /\ srv.stmts = <<"master_remove_node">>
    /\ NodeRows(pg_dist_node, srv.host) # {}
    /\ \E p \in pg_dist_placement : p \notin srv.placement

\* C7: connect_to_master does not fail.  While it runs nothing is returned to
\* main; every failed attempt is followed by one backoff of BackoffSecs and a
\* new attempt; it returns with the first attempt that succeeds, after
\* failures + 1 attempts and failures backoffs, and no failed attempt ends
\* docker_checker.
C7_ConnectRetriesUntilConnected ==
    /\ pc = "connect" =>
        /\ ~client /\ ret = None /\ exit = None
        /\ attempts = failures
        /\ slept = failures * BackoffSecs
    /\ pc = "sleep" =>
        /\ ~client /\ ret = None /\ exit = None
        /\ attempts = failures
        /\ slept = (failures - 1) * BackoffSecs
    /\ pc = "hostname" =>
        /\ client /\ ret = None /\ exit = None
        /\ attempts = failures + 1
        /\ slept = failures * BackoffSecs
    /\ cause.at \in {"connect", "sleep"} => cause.kind = "signal"
    /\ ret = Some("err") => cause.at \notin {"connect", "sleep"}

C7_Witness ==
    /\ pc = "hostname"
    /\ client
    /\ failures = MaxFailures
    /\ attempts = MaxFailures + 1
    /\ slept = MaxFailures * BackoffSecs

\* C8 as stated: after the clear at process start the readiness marker exists
\* only while the event subscription is open, and exists once it is.
C8_MarkerOnlyOnceSubscribed ==
    pc # "main" => (marker <=> events # None)

\* C9: when the inspection has returned a container without the Compose
\* project label, docker_checker has returned an error: no subscription is
\* open, the marker does not exist, no event was delivered, no database call
\* was made and the process exits with a non-zero status.
HasProjectLabel(c) ==
    \E config \in c.config : \E labels \in config.labels :
        \E kv \in labels : kv[1] = ProjectLabel
C9_MissingLabelIsFatal ==
    \A c \in container :
        ~HasProjectLabel(c) =>
            /\ pc = "exited"
            /\ ret = Some("err")
            /\ events = None
            /\ ~marker
            /\ delivered = <<>>
            /\ dbcalls = <<>>
            /\ pc = "exited" => exit = Some(ExitFailure)

C9_Witness ==
    /\ pc = "exited"
    /\ exit = Some(ExitFailure)
    /\ container = Some([config |-> Some([labels |-> None])])

\* C10: a shutdown signal can stop the process wherever docker_checker is
\* suspended, and then the exit status is 0; when docker_checker has returned
\* an error the exit status is 1; so no error ends in 0 and no signal in 1.
C10_ExitStatus ==
    /\ pc \in {"connect", "sleep", "inspect", "await_next", "db_wait"}
        => ENABLED Shutdown
    /\ (pc = "exited" /\ cause.kind = "signal") => exit = Some(ExitSuccess)
    /\ (pc = "exited" /\ ret = Some("err")) => exit = Some(ExitFailure)
    /\ exit = Some(ExitFailure) => (ret = Some("err") /\ cause.kind # "signal")
    /\ ret = Some("err") => cause.kind # "signal"

C10_Witness ==
    /\ pc = "exited"
    /\ cause = [kind |-> "signal", at |-> "inspect"]
    /\ exit = Some(ExitSuccess)

\* C11 as stated: a shutdown signal stops the process only while the event
\* loop awaits its next input: never while the database call of an event is
\* awaited, so no call that was started is cut off by the signal.
C11_NoShutdownDuringCall ==
    (pc = "exited" /\ cause.kind = "signal") =>
        /\ cause.at # "db_wait"
        /\ before = None
        /\ cur = None

\* C12: the reconciler has at most one database request in flight.  While it
\* awaits the next event or stands at the match on an event's action, no
\* result is pending and no call is open; and as long as the connection
\* lives, the database has nothing left to execute or to answer then, so a
\* new call is only ever made after the call before it has returned.
C12_OneRequestInFlight ==
    /\ pc \in {"await_next", "handle"} => (result = None /\ before = None)
    /\ pc = "await_next" => cur = None
    /\ (connAlive /\ pc \in {"await_next", "handle", "check_result"})
        => (srv = Idle /\ reply = None)
    /\ (srv.stmts # <<>> /\ pc \notin {"db_wait", "exited"}) => ~connAlive
    /\ Len(dbcalls) <= Len(delivered)

\* The second event is being handled and its call is in flight, after the
\* call of the first event has returned.
C12_Witness ==
    /\ pc = "db_wait"
    /\ Len(delivered) = 2
    /\ Len(dbcalls) = 2
    /\ srv.stmts # <<>>
    /\ connAlive

\* C13: an event whose action is neither "health_status: healthy" nor
\* "destroy" is a no-op: the step that matches its action makes no database
\* call and yields Ok, the step after it writes no error and awaits the next
\* event, and nothing is returned to main; and every "Error processing event"
\* line belongs to a healthy or destroy event.
OtherAction(e) == e.action \notin {Some(Healthy), Some(Destroy)}
C13_OtherActionIsNoOp ==
    /\ [][(/\ pc \in {"handle", "check_result"}
           /\ \E e \in cur : OtherAction(e)
           /\ pc' # pc)
            => /\ dbcalls' = dbcalls
               /\ errlog' = errlog
               /\ srv' = srv
               /\ ret' = None /\ exit' = None
               /\ pc = "handle" => (pc' = "check_result" /\ result' = Some("ok"))
               /\ pc = "check_result" => pc' = "await_next"]_vars
    /\ [](\A i \in 1..Len(errlog) :
            errlog[i].msg = "Error processing event"
                => IsMembershipEvent(EventOf(delivered[errlog[i].at])))

\* Two "pause" events of a named worker were handled: no call, no error, and
\* the loop awaits the next event.
C13_Witness ==
    /\ pc = "await_next"
    /\ Len(delivered) = 2
    /\ \A i \in 1..2 :
        /\ delivered[i].kind = "ok"
        /\ EventOf(delivered[i]).action = Some("pause")
        /\ HasName(EventOf(delivered[i]))
    /\ dbcalls = <<>>
    /\ errlog = <<>>

\* C14: a destroy event for a worker that is not registered is safe.  While
\* the database executes the removal batch for a host without a node row, no
\* step changes the node registry or removes a placement; the step that looks
\* at the result of such a remove_worker goes back to awaiting the next event
\* with nothing returned to main; and a destroy that follows a successful
\* destroy of the same worker finds the worker unregistered, so it leaves the
\* database as the first one left it.
RemovalOfAbsentNode ==
    /\ srv.stmts # <<>>
    /\ Last(srv.stmts) = "master_remove_node"
    /\ NodeRows(pg_dist_node, srv.host) = {}
DestroyedJustBefore(host) ==
    /\ Len(delivered) >= 2
    /\ delivered[Len(delivered) - 1].kind = "ok"
    /\ EventOf(delivered[Len(delivered) - 1]).action = Some(Destroy)
    /\ worker_name(EventOf(delivered[Len(delivered) - 1])) = host
    /\ \A i \in 1..Len(errlog) : errlog[i].at # Len(delivered) - 1
C14_RemovingAbsentWorkerIsNoOp ==
    /\ [][/\ RemovalOfAbsentNode
                => /\ pg_dist_node' = pg_dist_node
                   /\ pg_dist_placement \subseteq pg_dist_placement'
          /\ (/\ pc = "check_result" /\ pc' # pc
              /\ \E call \in before : /\ call.fn = "remove_worker"
                                      /\ NodeRows(call.node, call.host) = {})
                => /\ pc' = "await_next"
                   /\ cur' = None
                   /\ ret' = None /\ exit' = None]_vars
    /\ [](\A call \in before :
            (call.fn = "remove_worker" /\ DestroyedJustBefore(call.host))
                => /\ NodeRows(call.node, call.host) = {}
                   /\ pc = "check_result"
                        => /\ pg_dist_node = call.node
                           /\ call.placement \subseteq pg_dist_placement)

\* The second of two destroy events for worker-1 has been answered by the
\* database, with no error so far.
C14_Witness ==
    /\ pc = "check_result"
    /\ result = Some("ok")
    /\ errlog = <<>>
    /\ Len(delivered) = 2
    /\ DestroyedJustBefore("worker-1")
    /\ \E call \in before :
        /\ call = [fn |-> "remove_worker", host |-> "worker-1",
                   node |-> pg_dist_node, placement |-> call.placement]
        /\ NodeRows(call.node, "worker-1") = {}

\* C15 as stated: when HOSTNAME is missing the process eventually exits with
\* a non-zero status, whether or not the database can be reached (here:
\* unless a shutdown signal ends it before).
C15_MissingHostnameExits ==
    (hostname = None) => <>(exit = Some(ExitFailure) \/ cause.kind = "signal")

\* C16: the connection is made once.  Once connect_to_master has returned a
\* client it is never entered again and a connection that has ended stays
\* ended; a healthy / destroy event handled without a living connection gets
\* an error as the result of its call; and that error is logged with the
\* loop going on to await the next event.
C16_ConnectedOnce ==
    /\ [][/\ client => (client' /\ pc' \notin {"connect", "sleep"})
          /\ (client /\ ~connAlive) => ~connAlive'
          /\ (/\ ~connAlive
              /\ pc \in {"handle", "db_wait"}
              /\ pc' = "check_result"
              /\ before' # None)
                => result' = Some("err")
          /\ (pc = "check_result" /\ result = Some("err") /\ pc' # pc)
                => /\ pc' = "await_next"
                   /\ ret' = None /\ exit' = None
                   /\ Len(errlog') = Len(errlog) + 1]_vars
    /\ [](pc \in {"connect", "sleep"} => (events = None /\ delivered = <<>>))

\* The connection ended before the first event: both events had their call
\* made, both calls failed and were logged, and the loop awaits the next event.
C16_Witness ==
    /\ pc = "await_next"
    /\ client /\ ~connAlive
    /\ Len(dbcalls) = 2
    /\ errlog = <<[msg |-> "Error processing event", at |-> 1],
                  [msg |-> "Error processing event", at |-> 2]>>

\* C17: the readiness marker is a level signal.  Only the clear at process
\* start takes it down and only File::create in docker_checker raises it;
\* once raised it stays, so it exists while the subscription is open and
\* still exists when the process has exited after raising it.
C17_MarkerIsNeverTouchedAgain ==
    /\ [][marker' # marker
            => \/ (pc = "main" /\ ~marker')
               \/ (pc = "raise" /\ marker' /\ pc' = "subscribe")]_vars
    /\ [](events # None => marker)
    /\ []((pc = "exited" /\ cause.at \in {"await_next", "db_wait"})
            => marker)

\* The process was stopped by the signal during a database call, after a
\* transport error and a failed event: the marker is still there.
C17_Witness ==
    /\ pc = "exited"
    /\ marker
    /\ cause = [kind |-> "signal", at |-> "db_wait"]
    /\ Len(errlog) = 1
    /\ delivered[1].kind = "err"

\* C18: the startup phases come in a fixed order.  After the startup clear,
\* an open subscription, a readiness marker or a delivered event implies that
\* connect_to_master has returned a client and that the Compose project was
\* resolved; the inspection and the project come only after the client; so
\* as long as there is no client there is none of them.
C18_StartupOrder ==
    /\ (events # None \/ (marker /\ pc # "main") \/ delivered # <<>>)
        => (client /\ project # None)
    /\ (container # None \/ project # None) => client
    /\ project # None => container # None
    /\ delivered # <<>> => (events # None /\ marker)
    /\ dbcalls # <<>> => delivered # <<>>
    /\ ~client => (/\ events = None
                   /\ delivered = <<>>
                   /\ dbcalls = <<>>
                   /\ pc # "main" => ~marker)

\* An event is being handled after the whole startup.
C18_Witness ==
    /\ pc = "handle"
    /\ client
    /\ project = Some("citus")
    /\ events = Some(Filters("citus"))
    /\ marker
    /\ Len(delivered) = 1

\* C19: reconciliation converges to the last event per worker.  When every
\* delivered event was a named healthy / destroy event, all of them have been
\* handled and no database call has failed, a worker is registered if and
\* only if its latest event was "health_status: healthy", and every placement
\* is in the group of a registered worker, so none refers to a worker whose
\* latest event was "destroy".
EventsOf(w) ==
    {i \in 1..Len(delivered) :
        delivered[i].kind = "ok" /\ NameOf(EventOf(delivered[i])) = w}
LatestIsHealthy(w) ==
    /\ EventsOf(w) # {}
    /\ LET latest == CHOOSE i \in EventsOf(w) : \A j \in EventsOf(w) : j <= i
       IN  EventOf(delivered[latest]).action = Some(Healthy)
FullyProcessed ==
    /\ \/ pc = "await_next"
       \/ pc = "exited" /\ cause.at = "await_next"
    /\ OnlyNamedMembershipEvents
    /\ \A i \in 1..Len(errlog) : errlog[i].msg # "Error processing event"
C19_ConvergesToLatestEvent ==
    FullyProcessed =>
        /\ \A w \in Workers : (NodeRows(pg_dist_node, w) # {}) <=> LatestIsHealthy(w)
        /\ \A n \in pg_dist_node : n.nodename \in Workers
        /\ \A p \in pg_dist_placement :
            \E n \in pg_dist_node : /\ n.groupid = p.groupid
                                    /\ LatestIsHealthy(n.nodename)

\* worker-1 became healthy and was destroyed; both calls succeeded and the
\* registry and the placements are empty again.
C19_Witness ==
    /\ FullyProcessed
    /\ Len(delivered) = 2
    /\ dbcalls = <<[fn |-> "add_worker", host |-> "worker-1"],
                   [fn |-> "remove_worker", host |-> "worker-1"]>>
    /\ nextGroup = 2
    /\ pg_dist_node = {}
    /\ pg_dist_placement = {}

\* C20: when the stream has ended, docker_checker has returned Ok from the
\* point where it awaited the next item, with every delivered event handled
\* (none pending, one call per healthy / destroy event), and the exit status
\* is 0; and the end of the stream can be taken whenever the loop awaits.
C20_StreamEndIsSuccess ==
    /\ cause.kind = "stream_end" =>
        /\ pc = "exited"
        /\ cause.at = "await_next"
        /\ ret = Some("ok")
        /\ exit = Some(ExitSuccess)
        /\ cur = None /\ result = None /\ before = None
        /\ Len(dbcalls) = Cardinality({i \in 1..Len(delivered) :
                                        /\ delivered[i].kind = "ok"
                                        /\ IsMembershipEvent(EventOf(delivered[i]))})
    /\ ret = Some("ok") => cause.kind = "stream_end"
    /\ pc = "await_next" => ENABLED NextNone

\* The stream ended after two events whose calls were made.
C20_Witness ==
    /\ cause.kind = "stream_end"
    /\ exit = Some(ExitSuccess)
    /\ Len(delivered) = 2
    /\ Len(dbcalls) = 2

=============================================================================
